---- MODULE Spec2Model ----
(***************************************************************************)
(* AI validation pipeline of the learning tracker                          *)
(* (backend/apps/entries/tasks.py), the admin override endpoint            *)
(* (backend/apps/entries/views.py) and the entry row they share.           *)
(*                                                                         *)
(* Numbers: hours are kept in tenths of an hour, similarities in           *)
(* thousandths, stage confidences as integers 0..100, the final and the    *)
(* persisted confidence in hundredths of a point (round(x, 2)).            *)
(***************************************************************************)
EXTENDS Integers, Sequences, FiniteSets, TLC

VARIABLES
    db,          \* the Entry row of the analysed entry
    priors,      \* other active entries of the same user and subject, newest first
    tpc,         \* position of analyze_entry_task
    tentry,      \* the task's in-memory Entry instance
    st,          \* BrainState of the current execution
    retries,     \* self.request.retries
    exc,         \* text class of the exception being handled by the task
    outcome,     \* what the task returned
    apc,         \* position of the override request
    aentry,      \* the override request's in-memory Entry instance
    clock,       \* time.monotonic()
    stl,         \* soft time limit of this execution: "no", "caught" or "raised"
    backendDown, \* the inference backend is unreachable
    dispatches,  \* number of analyze_entry_task.delay(entry.id) calls so far
    epc,         \* position of the update request of the entry's owner
    eentry,      \* the update request's in-memory Entry instance
    run2,        \* a second execution of analyze_entry_task, on another worker
    basis        \* history: the inputs the persisted analysis was computed from

vars == <<db, priors, tpc, tentry, st, retries, exc, outcome, apc, aentry,
          clock, stl, backendDown, dispatches, epc, eentry, run2, basis>>

\* what the creation-dispatched run and the override request leave alone
editvars == <<dispatches, epc, eentry, run2, basis>>

-----------------------------------------------------------------------------
(* Bounds of the model *)

MaxClock == 60           \* the clock is not advanced beyond this
MaxPriors == 11          \* longest history considered
MaxPieces == 2           \* a description is made of at most this many pieces

(* Program constants *)

max_retries == 3
PipelineGuard == 55
CallTimeout == 15
CopyPasteThreshold == 700
SanitizeLimit == 500
TimeoutConfidence == -100

StageSet == {"time", "content", "progress"}

Max(a, b) == IF a >= b THEN a ELSE b
Min(a, b) == IF a <= b THEN a ELSE b

-----------------------------------------------------------------------------
(* Verdict extraction helpers *)

\* An inference response, as far as the extractors look at it: whether it is
\* empty, the keyword after "Verdict:"/"Decision:" ("none" when no such
\* keyword is found) and the digits after "Confidence:" (<<>> when absent).
Tokens == {"PASS", "CONCERN", "FAIL", "APPROVE", "FLAG", "PENDING"}

MkResp(tok, conf) == [empty |-> FALSE, token |-> tok, conf |-> conf]
EmptyResp == [empty |-> TRUE, token |-> "none", conf |-> <<>>]

DefaultStageConfidence(verdict) ==
    CASE verdict = "PASS" -> 82
      [] verdict = "CONCERN" -> 55
      [] verdict = "FAIL" -> 30
      [] OTHER -> 50

extract_verdict(response) ==
    IF response.empty THEN [verdict |-> "CONCERN", confidence |-> 50]
    ELSE LET verdict == IF response.token = "none" THEN "CONCERN"
                        ELSE IF response.token \in {"PASS", "APPROVE"} THEN "PASS"
                        ELSE IF response.token \in {"CONCERN", "FLAG"} THEN "CONCERN"
                        ELSE "FAIL"
             confidence == IF response.conf # <<>>
                           THEN Max(0, Min(100, response.conf[1]))
                           ELSE DefaultStageConfidence(verdict)
         IN [verdict |-> verdict, confidence |-> confidence]

DefaultFinalConfidence(decision) ==
    CASE decision = "approve" -> 85
      [] decision = "flag" -> 65
      [] decision = "pending" -> 40
      [] OTHER -> 50

extract_final_verdict(response) ==
    IF response.empty THEN [decision |-> "pending", confidence |-> 50]
    ELSE LET decision == IF response.token = "none" THEN "pending"
                         ELSE IF response.token \in {"APPROVE", "PASS"} THEN "approve"
                         ELSE IF response.token \in {"FLAG", "CONCERN"} THEN "flag"
                         ELSE "pending"
             confidence == IF response.conf # <<>>
                           THEN Max(0, Min(100, response.conf[1]))
                           ELSE DefaultFinalConfidence(decision)
         IN [decision |-> decision, confidence |-> confidence]

-----------------------------------------------------------------------------
(* Arithmetic helpers *)

\* round(n / d) as Python's round() gives it (ties go to the even neighbour)
RoundDiv(n, d) ==
    LET q == n \div d
        r == n % d
    IN IF 2 * r < d THEN q
       ELSE IF 2 * r > d THEN q + 1
       ELSE IF q % 2 = 0 THEN q ELSE q + 1

RECURSIVE SumHours(_)
SumHours(s) == IF s = <<>> THEN 0 ELSE Head(s).hours + SumHours(Tail(s))

RECURSIVE MaxSimilarity(_)
MaxSimilarity(s) ==
    IF s = <<>> THEN 0
    ELSE Max(Max(Head(s).jsim, Head(s).ssim), MaxSimilarity(Tail(s)))

Reverse(s) == [i \in 1..Len(s) |-> s[Len(s) + 1 - i]]

FirstN(s, n) == SubSeq(s, 1, Min(n, Len(s)))

\* difficulty_factors, in tenths
DifficultyFactor(difficulty) ==
    CASE difficulty = 1 -> 6
      [] difficulty = 2 -> 8
      [] difficulty = 3 -> 10
      [] difficulty = 4 -> 15
      [] difficulty = 5 -> 20
      [] OTHER -> 10

-----------------------------------------------------------------------------
(* Security: input sanitization *)

\* A user text is a sequence of lexemes, each with the number of characters
\* it stands for, and the note whether it has been through sanitize_input;
\* none marks Python's None.
Tok(w, n) == [w |-> w, n |-> n]
RawText(toks) == [toks |-> toks, clean |-> FALSE, none |-> FALSE]
NoneText == [toks |-> <<>>, clean |-> FALSE, none |-> TRUE]

\* re.IGNORECASE: the lexemes that differ from a pattern word by case only
Lower(w) ==
    CASE w = "SYSTEM" -> "system"
      [] w = "Ignore" -> "ignore"
      [] w = "PREVIOUS" -> "previous"
      [] OTHER -> w

\* elements of a pattern: a literal, \s+, \s*, an optional group
Lit(w) == [kind |-> "lit", w |-> w, sub |-> <<>>]
WS1 == [kind |-> "ws+", w |-> "", sub |-> <<>>]
WS0 == [kind |-> "ws*", w |-> "", sub |-> <<>>]
Opt(seq) == [kind |-> "opt", w |-> "", sub |-> seq]

PROMPT_INJECTION_PATTERNS ==
    << <<Lit("ignore"), WS1, Opt(<<Lit("all"), WS1>>), Lit("previous"), WS1,
         Lit("instruction"), Opt(<<Lit("s")>>)>>,
       <<Lit("forget"), WS1, Opt(<<Lit("all"), WS1>>), Lit("previous")>>,
       <<Lit("disregard"), WS1, Opt(<<Lit("all"), WS1>>), Lit("above")>>,
       <<Lit("new"), WS1, Lit("instruction"), Opt(<<Lit("s")>>), Lit(":")>>,
       <<Lit("system"), WS0, Lit(":")>>,
       <<Lit("["), Lit("system"), Lit("]")>>,
       <<Lit("["), Lit("assistant"), Lit("]")>>,
       <<Lit("you"), WS1, Lit("are"), WS1, Lit("now")>>,
       <<Lit("pretend"), WS1, Lit("to"), WS1, Lit("be")>>,
       <<Lit("act"), WS1, Lit("as"), WS1, Lit("if")>> >>

\* the replacement text '[REMOVED]'
Removed == <<Tok("[", 1), Tok("REMOVED", 7), Tok("]", 1)>>

IsSpace(toks, from, to) == \A m \in from..(to - 1) : toks[m].w = "ws"

\* the positions just after a match of pattern that starts at position i
RECURSIVE Ends(_, _, _)
Ends(pattern, toks, i) ==
    IF pattern = <<>> THEN {i}
    ELSE LET e == Head(pattern)
             rest == Tail(pattern)
         IN CASE e.kind = "lit" ->
                   IF i <= Len(toks) /\ Lower(toks[i].w) = e.w
                   THEN Ends(rest, toks, i + 1) ELSE {}
              [] e.kind = "ws+" ->
                   UNION {Ends(rest, toks, j) :
                            j \in {k \in (i + 1)..(Len(toks) + 1) : IsSpace(toks, i, k)}}
              [] e.kind = "ws*" ->
                   UNION {Ends(rest, toks, j) :
                            j \in {k \in i..(Len(toks) + 1) : IsSpace(toks, i, k)}}
              [] e.kind = "opt" ->
                   Ends(e.sub \o rest, toks, i) \cup Ends(rest, toks, i)

SetMax(S) == CHOOSE x \in S : \A y \in S : y <= x

\* re.sub(pattern, '[REMOVED]', text, flags=re.IGNORECASE): leftmost matches,
\* greedy, not overlapping
RECURSIVE SubFrom(_, _, _)
SubFrom(pattern, toks, i) ==
    IF i > Len(toks) THEN <<>>
    ELSE LET ends == Ends(pattern, toks, i)
         IN IF ends # {}
            THEN Removed \o SubFrom(pattern, toks, SetMax(ends))
            ELSE <<toks[i]>> \o SubFrom(pattern, toks, i + 1)

\* the for loop of sanitize_input, patterns k..10 in order; text is assigned
\* the result of one re.sub before the next pattern reads it
RECURSIVE RemovePatterns(_, _)
RemovePatterns(toks, k) ==
    IF k > Len(PROMPT_INJECTION_PATTERNS) THEN toks
    ELSE CHOOSE result \in {RemovePatterns(text, k + 1) :
                               text \in {SubFrom(PROMPT_INJECTION_PATTERNS[k], toks, 1)}} :
             TRUE

\* str.replace(q * 3, q) for a quote character q
RECURSIVE ReplaceTriple(_, _)
ReplaceTriple(q, toks) ==
    IF toks = <<>> THEN <<>>
    ELSE IF Len(toks) >= 3 /\ toks[1].w = q /\ toks[2].w = q /\ toks[3].w = q
    THEN <<toks[1]>> \o ReplaceTriple(q, SubSeq(toks, 4, Len(toks)))
    ELSE <<Head(toks)>> \o ReplaceTriple(q, Tail(toks))

RECURSIVE TextLen(_)
TextLen(toks) == IF toks = <<>> THEN 0 ELSE Head(toks).n + TextLen(Tail(toks))

\* text[:limit]; a lexeme the cut goes through leaves a fragment
RECURSIVE Slice(_, _)
Slice(toks, limit) ==
    IF toks = <<>> \/ limit <= 0 THEN <<>>
    ELSE IF Head(toks).n <= limit
    THEN <<Head(toks)>> \o Slice(Tail(toks), limit - Head(toks).n)
    ELSE <<Tok("cut", limit)>>

sanitize_input_slice_first(text) ==
    IF text.none \/ text.toks = <<>>
    THEN [toks |-> <<>>, clean |-> TRUE, none |-> FALSE]
    ELSE [text EXCEPT
            !.toks = ReplaceTriple("sq", ReplaceTriple("dq",
                         RemovePatterns(Slice(text.toks, SanitizeLimit), 1))),
            !.clean = TRUE]

sanitize_input(text) ==
    IF text.none \/ text.toks = <<>>
    THEN [toks |-> <<>>, clean |-> TRUE, none |-> FALSE]
    ELSE CHOOSE result \in
             {[text EXCEPT !.toks = Slice(unquoted, SanitizeLimit), !.clean = TRUE] :
                unquoted \in
                  {ReplaceTriple("sq", dq) :
                     dq \in {ReplaceTriple("dq", removed) :
                               removed \in {RemovePatterns(text.toks, 1)}}}} :
             TRUE

\* re.search of any of the patterns, ignoring case
HasInjection(toks) ==
    \E k \in 1..Len(PROMPT_INJECTION_PATTERNS), i \in 1..Len(toks) :
        Ends(PROMPT_INJECTION_PATTERNS[k], toks, i) # {}

\* text[:limit] of a text value, and "text or ''"
SliceText(text, limit) == [text EXCEPT !.toks = Slice(@, limit)]
OrEmpty(text) == IF text.none THEN [text EXCEPT !.toks = <<>>, !.none = FALSE] ELSE text

\* a description: its lexemes, and what the fallback judges count in it
Description(words, tech, toks) ==
    [words |-> words, tech |-> tech, toks |-> toks, clean |-> FALSE, none |-> FALSE]

\* one place where a user text is interpolated into a prompt or compared
Use(site, field, text) == [site |-> site, field |-> field, clean |-> text.clean]

-----------------------------------------------------------------------------
(* Node 0: Context Gatherer *)

NoVerdict == [present |-> FALSE, verdict |-> "none", confidence |-> 0]
MkVerdict(v, c) == [present |-> TRUE, verdict |-> v, confidence |-> c]

\* the 'date' of a trajectory element: str(prev['date']) of a prior entry,
\* written <<day>>, or the text 'current', written <<>>
DateStr(date) == <<date>>
Current == <<>>

TrajectoryNewestFirst(prior_entries, entry_data) ==
    [i \in 1..Len(prior_entries) |->
        [date |-> DateStr(prior_entries[i].date),
         progress |-> prior_entries[i].progress,
         hours |-> prior_entries[i].hours,
         summary |-> SliceText(prior_entries[i].learned_text, 100)]]
    \o <<[date |-> Current, progress |-> entry_data.progress_percent,
          hours |-> entry_data.hours,
          summary |-> SliceText(entry_data.learned_text, 100)]>>

\* lines 419-435: the prior entries oldest first, then the current entry
TrajectoryOf(prior_entries, entry_data) ==
    [i \in 1..Len(prior_entries) |->
        [date |-> DateStr(Reverse(prior_entries)[i].date),
         progress |-> Reverse(prior_entries)[i].progress,
         hours |-> Reverse(prior_entries)[i].hours,
         summary |-> SliceText(Reverse(prior_entries)[i].learned_text, 100)]]
    \o <<[date |-> Current, progress |-> entry_data.progress_percent,
          hours |-> entry_data.hours,
          summary |-> SliceText(entry_data.learned_text, 100)]>>

EstimatedTotal(benchmark, difficulty, is_project) ==
    LET estimated_total == RoundDiv(benchmark * DifficultyFactor(difficulty), 10)
    IN IF is_project THEN Max(estimated_total, 100) ELSE estimated_total

ProgressCoherent(is_completed, progress) ==
    IF is_completed /\ progress < 100 THEN FALSE
    ELSE IF ~is_completed /\ progress >= 100 THEN FALSE
    ELSE TRUE

CopyPasteFlagged(max_sim) == max_sim > CopyPasteThreshold

\* the texts handed to jaccard_similarity and sequence_similarity (lines 446-452)
SimilarityUses(state, prior_entries) ==
    UNION {{Use("similarity", "learned_text", state.entry_data.learned_text),
            Use("similarity", "prior_learned_text", prior_entries[i].learned_text)} :
           i \in 1..Min(10, Len(prior_entries))}

\* prior_entries_summaries (lines 455-463)
Summaries(prior_entries) ==
    [i \in 1..Min(5, Len(prior_entries)) |->
        SliceText(prior_entries[i].learned_text, 120)]

\* blocker_summary as far as it carries user text (lines 477-488)
BlockerSummary(entry_data) ==
    SliceText(sanitize_input(OrEmpty(entry_data.blockers_text)), 200)

\* the state after the history query and the derived fields (lines 394-526)
context_gatherer(state, prior_entries) ==
    LET entry_data == state.entry_data
        max_sim == MaxSimilarity(FirstN(prior_entries, 10))
    IN [state EXCEPT
          !.uses = @ \cup SimilarityUses(state, prior_entries),
          !.prior_entries_summaries = Summaries(prior_entries),
          !.blocker_summary = BlockerSummary(entry_data),
          !.prior_entries_count = Len(prior_entries),
          !.copy_paste_max_similarity = max_sim,
          !.copy_paste_flagged = CopyPasteFlagged(max_sim),
          !.progress_coherent =
              ProgressCoherent(entry_data.is_completed, entry_data.progress_percent),
          !.is_completed = entry_data.is_completed,
          !.progress_percent = entry_data.progress_percent,
          !.total_hours_invested = SumHours(prior_entries) + entry_data.hours,
          !.progress_trajectory = TrajectoryOf(prior_entries, entry_data),
          !.estimated_total_hours =
              EstimatedTotal(state.benchmark_hours, state.topic_difficulty,
                             state.intent = "sbu_tasks"),
          !.path = [@ EXCEPT !["context"] = "logic"]]

\* the admin feedback signal derived from the learner's overridden, analysed
\* entries (lines 528-571); rows is the set of such rows
AdminFeedback(rows) ==
    LET ai_too_strict == Cardinality({e \in rows :
            e.ai_decision \in {"flag", "pending", "reject"} /\ e.status = "approved"})
        ai_too_lenient == Cardinality({e \in rows :
            e.ai_decision = "approve" /\ e.status \in {"flagged", "rejected"}})
    IN IF rows = {} \/ (ai_too_strict = 0 /\ ai_too_lenient = 0) THEN "none"
       ELSE IF ai_too_strict > ai_too_lenient THEN "too_strict"
       ELSE IF ai_too_lenient > ai_too_strict THEN "too_lenient"
       ELSE "mixed"

-----------------------------------------------------------------------------
(* Nodes 1-3: the fallback judges and the post-processing of an inference answer *)

learning_time_fallback(state) ==
    LET hours == state.entry_data.hours
        \* expected, in thousandths of an hour
        expected == state.benchmark_hours * DifficultyFactor(state.topic_difficulty) * 10
    IN IF hours * 1000 <= expected * 15 THEN MkVerdict("PASS", 70)
       ELSE IF hours * 1000 <= expected * 25 THEN MkVerdict("CONCERN", 50)
       ELSE MkVerdict("FAIL", 30)

project_time_fallback(state) ==
    LET hours == state.entry_data.hours
    IN IF hours <= 40 THEN MkVerdict("PASS", 70)
       ELSE IF hours <= 80 THEN MkVerdict("CONCERN", 50)
       ELSE MkVerdict("CONCERN", 40)

learning_content_fallback(state) ==
    LET word_count == state.entry_data.learned_text.words
        tech_matches == state.entry_data.learned_text.tech
    IN IF word_count >= 40 /\ tech_matches >= 2 THEN MkVerdict("PASS", 65)
       ELSE IF word_count >= 20 /\ tech_matches >= 1 THEN MkVerdict("CONCERN", 45)
       ELSE MkVerdict("FAIL", 25)

project_content_fallback(state) ==
    LET word_count == state.entry_data.learned_text.words
        tech_matches == state.entry_data.learned_text.tech
    IN IF word_count >= 40 /\ tech_matches >= 2 THEN MkVerdict("PASS", 60)
       ELSE IF word_count >= 20 THEN MkVerdict("CONCERN", 40)
       ELSE MkVerdict("FAIL", 25)

learning_progress_fallback(state) ==
    LET total_invested == state.total_hours_invested
        estimated_total == state.estimated_total_hours
        progress == state.progress_percent
        is_completed == state.is_completed
    IN IF is_completed /\ total_invested * 10 < estimated_total * 3
       THEN MkVerdict("FAIL", 25)
       ELSE IF is_completed /\ estimated_total > 0
                /\ total_invested * 10 >= estimated_total * 8
       THEN MkVerdict("PASS", 75)
       ELSE IF is_completed /\ total_invested * 10 >= estimated_total * 5
       THEN MkVerdict("PASS", 65)
       ELSE IF progress > 0 /\ total_invested > 0 THEN MkVerdict("PASS", 60)
       ELSE MkVerdict("CONCERN", 45)

project_progress_fallback(state) ==
    LET total_invested == state.total_hours_invested
        progress == state.progress_percent
        is_completed == state.is_completed
    IN IF is_completed /\ total_invested >= 20 /\ progress >= 80
       THEN MkVerdict("PASS", 70)
       ELSE IF is_completed /\ progress >= 60 THEN MkVerdict("PASS", 60)
       ELSE IF is_completed /\ total_invested < 10 THEN MkVerdict("FAIL", 25)
       ELSE IF progress > 0 THEN MkVerdict("PASS", 55)
       ELSE MkVerdict("CONCERN", 40)

StageFallback(stage, state) ==
    LET is_project == state.intent = "sbu_tasks"
    IN CASE stage = "time" ->
              IF is_project THEN project_time_fallback(state)
              ELSE learning_time_fallback(state)
         [] stage = "content" ->
              IF is_project THEN project_content_fallback(state)
              ELSE learning_content_fallback(state)
         [] stage = "progress" ->
              IF is_project THEN project_progress_fallback(state)
              ELSE learning_progress_fallback(state)

\* Copy-paste penalty of the Content/Work stage (lines 822-826, 1169-1173)
CopyPastePenalty(state, confidence) ==
    IF state.copy_paste_flagged /\ confidence > 40
    THEN Max(20, confidence
                 - Min(25, RoundDiv(state.copy_paste_max_similarity * 30, 1000)))
    ELSE confidence

\* Coherence penalty of the Progress/Scope stage (lines 944-949, 1285-1290)
CoherencePenalty(state, v) ==
    IF ~state.progress_coherent
    THEN MkVerdict(IF v.verdict = "PASS" THEN "CONCERN" ELSE v.verdict,
                   Max(20, v.confidence - 20))
    ELSE MkVerdict(v.verdict, v.confidence)

\* what a stage records when its inference call answers with response
StageInference(stage, state, response) ==
    LET x == extract_verdict(response)
    IN CASE stage = "time" -> MkVerdict(x.verdict, x.confidence)
         [] stage = "content" ->
              MkVerdict(x.verdict, CopyPastePenalty(state, x.confidence))
         [] stage = "progress" -> CoherencePenalty(state, x)

StageFallbackUncounted(stage, state) ==
    [state EXCEPT !.node_verdicts = [@ EXCEPT ![stage] = StageFallback(stage, state)],
                  !.path = [@ EXCEPT ![stage] = "breaker"]]

\* the except branch of an evaluator: count the fallback, record its verdict
StageFallbackState(stage, state) ==
    [state EXCEPT !.ai_failures = @ + 1,
                  !.node_verdicts = [@ EXCEPT ![stage] = StageFallback(stage, state)],
                  !.path = [@ EXCEPT ![stage] = "breaker"]]

StageInferenceState(stage, state, response) ==
    [state EXCEPT !.node_verdicts =
                      [@ EXCEPT ![stage] = StageInference(stage, state, response)],
                  !.path = [@ EXCEPT ![stage] = "ai"]]

-----------------------------------------------------------------------------
(* The user texts a node interpolates into its prompt *)

\* project_desc[:limit] of the project nodes and of the context summary;
\* 'No description' stands in for a missing one
ProjectDescUses(site, state, limit) ==
    IF state.intent = "sbu_tasks" /\ ~state.project_description.none
    THEN {Use(site, "project_description", SliceText(state.project_description, limit))}
    ELSE {}

\* prior_context: the joined prior_entries_summaries
PriorContextUses(site, state) ==
    {Use(site, "prior_learned_text", state.prior_entries_summaries[i]) :
        i \in 1..Len(state.prior_entries_summaries)}

\* traj_summary: t['summary'][:60] of the last 6 trajectory elements
TrajectoryUses(site, state) ==
    LET t == state.progress_trajectory
    IN IF Len(t) > 1
       THEN {Use(site,
                 IF t[i].date = Current THEN "learned_text" ELSE "prior_learned_text",
                 SliceText(t[i].summary, 60)) : i \in Max(1, Len(t) - 5)..Len(t)}
       ELSE {}

PromptUses(node, state) ==
    LET text == sanitize_input(state.entry_data.learned_text)
    IN CASE node = "time" ->
              {Use(node, "learned_text", text),
               Use(node, "blockers_text", state.blocker_summary)}
              \cup ProjectDescUses(node, state, 300)
         [] node = "content" ->
              {Use(node, "learned_text", text)}
              \cup PriorContextUses(node, state)
              \cup ProjectDescUses(node, state, 300)
         [] node = "progress" ->
              {Use(node, "learned_text", text)}
              \cup PriorContextUses(node, state)
              \cup TrajectoryUses(node, state)
              \cup ProjectDescUses(node, state, 300)
         [] node = "verdict" ->
              {Use(node, "blockers_text", state.blocker_summary)}
              \cup ProjectDescUses(node, state, 200)

-----------------------------------------------------------------------------
(* Pipeline guard, checked at the head of every try block *)

\* how a node's start relates to the 55 seconds of the guard (kept in
\* state.started for the properties; the code does not read it)
Lateness(state, now) ==
    IF now - state.pipeline_start > PipelineGuard THEN "late" ELSE "in_time"

GuardExceededLate(state, now) == now - state.pipeline_start > PipelineGuard + 30

GuardExceeded(state, now) == now - state.pipeline_start > PipelineGuard

-----------------------------------------------------------------------------
(* Node 4: Verdict Agent *)

VGet(v) == IF v.present THEN v.verdict ELSE "CONCERN"
CGet(v) == IF v.present THEN v.confidence ELSE 50

FallbackGuardrailOnlyAll(state, d) ==
    IF state.ai_failures > 2 /\ d.decision = "approve"
    THEN [decision |-> "flag", confidence |-> Min(d.confidence, 75)]
    ELSE d

\* "Never auto-approve if multiple nodes used fallback" (lines 1433-1438)
FallbackGuardrail(state, d) ==
    IF state.ai_failures > 1 /\ d.decision = "approve"
    THEN [decision |-> "flag", confidence |-> Min(d.confidence, 75)]
    ELSE d

CopyPasteGuardrailOff(state, d) == d

\* "Never approve if copy-paste detected" (lines 1440-1444)
CopyPasteGuardrail(state, d) ==
    IF state.copy_paste_flagged /\ d.decision = "approve"
    THEN [decision |-> "flag", confidence |-> Min(d.confidence, 70)]
    ELSE d

\* the try branch after the inference call has answered (lines 1430-1447)
VerdictInference(state, response) ==
    LET d == CopyPasteGuardrail(state,
                 FallbackGuardrail(state, extract_final_verdict(response)))
    IN [decision |-> d.decision, confidence |-> d.confidence * 100]

VerdictVoteApproving(tv, cv, pv) ==
    LET sum == CGet(tv) + CGet(cv) + CGet(pv)
    IN IF {VGet(tv), VGet(cv), VGet(pv)} = {"PASS"} /\ sum >= 225
       THEN [decision |-> "approve", confidence |-> Min(RoundDiv(sum * 100, 3), 8000)]
       ELSE [decision |-> "flag", confidence |-> Min(RoundDiv(sum * 100, 3), 6500)]

\* the except branch: vote on the node verdicts (lines 1488-1515)
VerdictVote(tv, cv, pv) ==
    LET verdicts == <<VGet(tv), VGet(cv), VGet(pv)>>
        fail_count == Cardinality({i \in 1..3 : verdicts[i] = "FAIL"})
        concern_count == Cardinality({i \in 1..3 : verdicts[i] = "CONCERN"})
        pass_count == Cardinality({i \in 1..3 : verdicts[i] = "PASS"})
        sum == CGet(tv) + CGet(cv) + CGet(pv)
        avg100 == RoundDiv(sum * 100, 3)
    IN IF fail_count >= 2
       THEN [decision |-> "pending", confidence |-> Min(avg100, 4500)]
       ELSE IF fail_count >= 1 \/ concern_count >= 2
       THEN [decision |-> "flag", confidence |-> Min(avg100, 7000)]
       ELSE IF pass_count = 3 /\ sum >= 225
       THEN [decision |-> "flag", confidence |-> Min(avg100, 8000)]
       ELSE [decision |-> "flag", confidence |-> Min(avg100, 6500)]

VerdictFallbackIgnoringProgress(state) ==
    VerdictVote(state.node_verdicts["time"], state.node_verdicts["content"],
                state.node_verdicts["content"])

VerdictFallback(state) ==
    VerdictVote(state.node_verdicts["time"], state.node_verdicts["content"],
                state.node_verdicts["progress"])

VerdictState(state, d, path) ==
    [state EXCEPT !.final_decision = d.decision,
                  !.final_confidence = d.confidence,
                  !.path = [@ EXCEPT !["verdict"] = path]]

-----------------------------------------------------------------------------
(* The entry row and the task's initial state *)

NoTopic == [present |-> FALSE, benchmark_hours |-> 0, difficulty |-> 3]
MkTopic(b, d) == [present |-> TRUE, benchmark_hours |-> b, difficulty |-> d]

\* a row as EntrySerializer/Entry.save() create it
NewEntry(intent, topic, hours, text, progress, completed) ==
    [intent |-> intent, topic |-> topic, hours |-> hours, learned_text |-> text,
     blockers_text |-> RawText(<<Tok("technical", 9), Tok(":", 1), Tok("x", 30)>>),
     project_description |->
         IF intent = "sbu_tasks" THEN RawText(<<Tok("x", 80)>>) ELSE NoneText,
     progress_percent |-> progress, is_completed |-> completed, is_active |-> TRUE,
     ai_status |-> "pending", ai_decision |-> "none", ai_confidence |-> <<>>,
     ai_chain_of_thought |-> "empty", ai_analyzed_at |-> 0,
     status |-> "pending", admin_override |-> FALSE, exists |-> TRUE]

NullEntry == NewEntry("lnd_tasks", NoTopic, 0, Description(0, 0, <<>>), 0, FALSE)

AIFields(e) == <<e.ai_status, e.ai_decision, e.ai_confidence,
                 e.ai_chain_of_thought, e.ai_analyzed_at>>

PathNone == [n \in {"context", "time", "content", "progress", "verdict"} |-> "none"]

\* the BrainState literal of analyze_entry_task (lines 1641-1699)
InitialState(entry, now) ==
    [entry_data |-> [hours |-> entry.hours,
                     learned_text |-> OrEmpty(entry.learned_text),
                     blockers_text |-> OrEmpty(entry.blockers_text),
                     is_completed |-> entry.is_completed,
                     progress_percent |-> entry.progress_percent],
     project_description |-> entry.project_description,
     prior_entries_summaries |-> <<>>,
     blocker_summary |-> RawText(<<>>),
     text |-> NoneText,
     uses |-> {},
     topic_difficulty |-> IF entry.topic.present THEN entry.topic.difficulty ELSE 3,
     benchmark_hours |-> IF entry.topic.present /\ entry.topic.benchmark_hours > 0
                         THEN entry.topic.benchmark_hours ELSE 30,
     intent |-> entry.intent,
     prior_entries_count |-> 0,
     copy_paste_max_similarity |-> 0,
     copy_paste_flagged |-> FALSE,
     progress_coherent |-> TRUE,
     is_completed |-> entry.is_completed,
     progress_percent |-> entry.progress_percent,
     total_hours_invested |-> 0,
     progress_trajectory |-> <<>>,
     estimated_total_hours |-> IF entry.topic.present /\ entry.topic.benchmark_hours > 0
                               THEN entry.topic.benchmark_hours ELSE 30,
     feedback |-> "none",
     node_verdicts |-> [s \in StageSet |-> NoVerdict],
     path |-> PathNone,
     called |-> {},
     started |-> [n \in StageSet \cup {"verdict"} |-> "no"],
     ai_failures |-> 0,
     pipeline_start |-> now,
     final_confidence |-> 0,
     final_decision |-> "pending"]

-----------------------------------------------------------------------------
(* analyze_entry_task *)

BodyPcs == {"context", "feedback", "time", "time_call", "content", "content_call",
            "progress", "progress_call", "verdict", "verdict_call", "refresh", "save"}

CallPc(stage) == CASE stage = "time" -> "time_call"
                   [] stage = "content" -> "content_call"
                   [] stage = "progress" -> "progress_call"

NextNodeSkipsProgress(stage) == CASE stage = "time" -> "content"
                                    [] stage = "content" -> "verdict"
                                    [] stage = "progress" -> "verdict"

\* the edges of build_learning_brain / build_project_brain
NextNode(stage) == CASE stage = "time" -> "content"
                     [] stage = "content" -> "progress"
                     [] stage = "progress" -> "verdict"

Finish(result) == /\ tpc' = "done"
                  /\ outcome' = result

\* lines 1615-1699: read the entry (Entry.DoesNotExist is caught at line 1736),
\* honour the Human Priority Lock, build the state
TaskStart ==
    /\ tpc = "queued"
    /\ stl' = "no"
    /\ IF ~db.exists
       THEN /\ Finish("not_found")
            /\ UNCHANGED <<tentry, st>>
       ELSE IF db.admin_override
       THEN /\ Finish("skipped")
            /\ UNCHANGED <<tentry, st>>
       ELSE /\ tentry' = db
            /\ st' = InitialState(db, clock)
            /\ tpc' = "context"
            /\ UNCHANGED outcome
    /\ UNCHANGED <<db, priors, retries, exc, apc, aentry, clock, backendDown>>
    /\ UNCHANGED editvars

\* Node 0, lines 394-526: history query and derived fields
ContextGather ==
    /\ tpc = "context"
    /\ st' = context_gatherer(st, priors)
    /\ tpc' = "feedback"
    /\ UNCHANGED <<db, priors, tentry, retries, exc, outcome, apc, aentry, clock,
                   stl, backendDown>>
    /\ UNCHANGED editvars

\* Node 0, lines 528-571: the override-history lookup inside try/except; a
\* failing lookup is swallowed and leaves no feedback
ContextFeedback ==
    /\ tpc = "feedback"
    /\ \E ok \in BOOLEAN :
         st' = [st EXCEPT !.feedback =
                   IF ok /\ db.admin_override /\ db.ai_status = "analyzed" /\ db.is_active
                   THEN AdminFeedback({db}) ELSE "none"]
    /\ tpc' = "time"
    /\ UNCHANGED <<db, priors, tentry, retries, exc, outcome, apc, aentry, clock,
                   stl, backendDown>>
    /\ UNCHANGED editvars

\* head of an evaluator's try block: pipeline guard, then the prompt and llm.invoke
StageEnter(stage) ==
    /\ tpc = stage
    /\ IF GuardExceeded(st, clock)
       THEN /\ st' = [StageFallbackState(stage, st)
                         EXCEPT !.started[stage] = Lateness(st, clock)]
            /\ tpc' = NextNode(stage)
       ELSE /\ st' = [st EXCEPT !.called = @ \cup {stage},
                                !.started[stage] = Lateness(st, clock),
                                !.text = sanitize_input(st.entry_data.learned_text),
                                !.uses = @ \cup PromptUses(stage, st)]
            /\ tpc' = CallPc(stage)
    /\ UNCHANGED <<db, priors, tentry, retries, exc, outcome, apc, aentry, clock,
                   stl, backendDown>>
    /\ UNCHANGED editvars

\* the inference call answers
StageAnswer(stage, responses) ==
    /\ tpc = CallPc(stage)
    /\ ~backendDown
    /\ \E r \in responses : st' = StageInferenceState(stage, st, r)
    /\ tpc' = NextNode(stage)
    /\ UNCHANGED <<db, priors, tentry, retries, exc, outcome, apc, aentry, clock,
                   stl, backendDown>>
    /\ UNCHANGED editvars

\* the inference call raises (timeout, connection error)
StageFail(stage) ==
    /\ tpc = CallPc(stage)
    /\ st' = StageFallbackState(stage, st)
    /\ tpc' = NextNode(stage)
    /\ UNCHANGED <<db, priors, tentry, retries, exc, outcome, apc, aentry, clock,
                   stl, backendDown>>
    /\ UNCHANGED editvars

\* Node 4, lines 1394-1399
VerdictEnter ==
    /\ tpc = "verdict"
    /\ IF GuardExceeded(st, clock)
       THEN /\ st' = [VerdictState(st, VerdictFallback(st), "breaker")
                         EXCEPT !.started["verdict"] = Lateness(st, clock)]
            /\ tpc' = "refresh"
       ELSE /\ st' = [st EXCEPT !.called = @ \cup {"verdict"},
                                !.started["verdict"] = Lateness(st, clock),
                                !.uses = @ \cup PromptUses("verdict", st)]
            /\ tpc' = "verdict_call"
    /\ UNCHANGED <<db, priors, tentry, retries, exc, outcome, apc, aentry, clock,
                   stl, backendDown>>
    /\ UNCHANGED editvars

VerdictAnswer(responses) ==
    /\ tpc = "verdict_call"
    /\ ~backendDown
    /\ \E r \in responses : st' = VerdictState(st, VerdictInference(st, r), "ai")
    /\ tpc' = "refresh"
    /\ UNCHANGED <<db, priors, tentry, retries, exc, outcome, apc, aentry, clock,
                   stl, backendDown>>
    /\ UNCHANGED editvars

VerdictFail ==
    /\ tpc = "verdict_call"
    /\ st' = VerdictState(st, VerdictFallback(st), "breaker")
    /\ tpc' = "refresh"
    /\ UNCHANGED <<db, priors, tentry, retries, exc, outcome, apc, aentry, clock,
                   stl, backendDown>>
    /\ UNCHANGED editvars

TaskRefreshUncaught ==
    /\ tpc = "refresh"
    /\ IF ~db.exists
       THEN /\ tpc' = "except"
            /\ UNCHANGED <<tentry, outcome>>
       ELSE /\ tentry' = db
            /\ IF db.admin_override
               THEN Finish("overridden")
               ELSE /\ tpc' = "save"
                    /\ UNCHANGED outcome
    /\ UNCHANGED <<db, priors, st, retries, exc, apc, aentry, clock, stl, backendDown>>
    /\ UNCHANGED editvars

\* Race Condition Guard, lines 1711-1714; refresh_from_db() of a deleted row
\* raises Entry.DoesNotExist, caught at line 1736
TaskRefresh ==
    /\ tpc = "refresh"
    /\ IF ~db.exists
       THEN /\ Finish("not_found")
            /\ UNCHANGED tentry
       ELSE /\ tentry' = db
            /\ IF db.admin_override
               THEN Finish("overridden")
               ELSE /\ tpc' = "save"
                    /\ UNCHANGED outcome
    /\ UNCHANGED <<db, priors, st, retries, exc, apc, aentry, clock, stl, backendDown>>
    /\ UNCHANGED editvars

AnalyzedResetsPending(entry, state, stamp) ==
    [entry EXCEPT !.ai_status = "analyzed",
                  !.ai_decision = state.final_decision,
                  !.ai_confidence = <<state.final_confidence>>,
                  !.ai_chain_of_thought = "trace",
                  !.ai_analyzed_at = stamp,
                  !.status = IF state.final_decision = "approve" THEN "approved"
                             ELSE IF state.final_decision = "flag" THEN "flagged"
                             ELSE "pending"]

\* the in-memory instance as lines 1716-1726 leave it
Analyzed(entry, state, stamp) ==
    [entry EXCEPT !.ai_status = "analyzed",
                  !.ai_decision = state.final_decision,
                  !.ai_confidence = <<state.final_confidence>>,
                  !.ai_chain_of_thought = "trace",
                  !.ai_analyzed_at = stamp,
                  !.status = IF state.final_decision = "approve" THEN "approved"
                             ELSE IF state.final_decision = "flag" THEN "flagged"
                             ELSE @]

\* entry.save(update_fields=[...]) writes exactly these columns (lines 1728-1731)
SaveUpdateFields(row, entry) ==
    [row EXCEPT !.ai_status = entry.ai_status,
                !.ai_decision = entry.ai_decision,
                !.ai_confidence = entry.ai_confidence,
                !.ai_chain_of_thought = entry.ai_chain_of_thought,
                !.ai_analyzed_at = entry.ai_analyzed_at,
                !.status = entry.status]

-----------------------------------------------------------------------------
(* signals.py: the receivers run by every Entry.save() *)

AI_SENSITIVE_FIELDS == {"hours", "learned_text", "blockers_text", "topic_id"}

\* getattr(instance, field, None)
FieldOf(e, field) ==
    CASE field = "hours" -> <<e.hours>>
      [] field = "learned_text" -> <<e.learned_text>>
      [] field = "blockers_text" -> <<e.blockers_text>>
      [] field = "topic_id" -> <<e.topic>>
      [] field = "progress_percent" -> <<e.progress_percent>>
      [] field = "is_completed" -> <<e.is_completed>>
      [] field = "project_description" -> <<e.project_description>>
      [] field = "intent" -> <<e.intent>>

\* pre_save, lines 14-29: _ai_needs_reanalysis; an instance without a row
\* (no pk yet, or Entry.DoesNotExist) needs none
track_changes_for_ai(row, instance) ==
    IF row.exists
    THEN \E field \in AI_SENSITIVE_FIELDS : FieldOf(row, field) # FieldOf(instance, field)
    ELSE FALSE

\* the columns of the terminal save (tasks.py:1728-1731); {} stands for a save
\* without update_fields
AnalysisFields == {"ai_status", "ai_decision", "ai_confidence",
                   "ai_chain_of_thought", "ai_analyzed_at", "status"}

InternalUpdateUnseen(update_fields) == FALSE

\* post_save, lines 38-40: "Skip if this is an internal AI update"
InternalUpdate(update_fields) ==
    update_fields # {} /\ "ai_status" \in update_fields

\* post_save, lines 61-65
should_analyze(instance, created, needs) ==
    instance.is_active /\ ~instance.admin_override /\ (created \/ needs)

\* post_save, lines 32-78: the row and the number of tasks queued
update_mastery_and_trigger_ai(row, instance, created, update_fields, needs) ==
    IF InternalUpdate(update_fields) THEN [row |-> row, queued |-> 0]
    ELSE IF should_analyze(instance, created, needs)
    THEN [row |-> IF created THEN row ELSE [row EXCEPT !.ai_status = "pending"],
          queued |-> 1]
    ELSE [row |-> row, queued |-> 0]

\* Entry.save(): pre_save, the write (all columns, inserting the row when it
\* is not there, unless update_fields names the columns), post_save
EntrySave(row, instance, update_fields) ==
    LET needs == track_changes_for_ai(row, instance)
        created == ~row.exists
        written == IF update_fields = {} THEN [instance EXCEPT !.exists = TRUE]
                   ELSE SaveUpdateFields(row, instance)
    IN update_mastery_and_trigger_ai(written, instance, created, update_fields, needs)

\* what an execution has read of the entry (tasks.py:1641-1672)
InputsOf(state) ==
    <<state.entry_data, state.project_description, state.intent,
      state.topic_difficulty, state.benchmark_hours>>

InputsOfRow(row) == InputsOf(InitialState(row, 0))

-----------------------------------------------------------------------------
(* analyze_entry_task: the terminal save and the exception handlers *)

\* Save Results, lines 1716-1734; a save with update_fields that matches no
\* row raises DatabaseError, which unwinds the task body
TaskSave ==
    /\ tpc = "save"
    /\ IF db.exists
       THEN /\ tentry' = Analyzed(tentry, st, db.ai_analyzed_at + 1)
            /\ db' = EntrySave(db, tentry', AnalysisFields).row
            /\ dispatches' = dispatches + EntrySave(db, tentry', AnalysisFields).queued
            /\ basis' = InputsOf(st)
            /\ Finish("analyzed")
            /\ UNCHANGED <<st, exc>>
       ELSE /\ exc' = "other"
            /\ tpc' = "except"
            /\ tentry' = NullEntry
            /\ st' = InitialState(NullEntry, 0)
            /\ UNCHANGED <<db, outcome, dispatches, basis>>
    /\ UNCHANGED <<priors, retries, apc, aentry, clock, stl, backendDown>>
    /\ UNCHANGED <<epc, eentry, run2>>

\* the row after Entry.objects.filter(id=..., admin_override=False).update(...)
\* of the SoftTimeLimitExceeded handler (lines 1743-1750)
TimeoutUpdate(row) ==
    IF ~row.exists \/ row.admin_override THEN row
    ELSE [row EXCEPT !.ai_status = "timeout",
                     !.ai_decision = "flag",
                     !.ai_confidence = <<TimeoutConfidence>>,
                     !.ai_chain_of_thought = "timed_out",
                     !.ai_analyzed_at = @ + 1,
                     !.status = "flagged"]

\* the soft time limit is raised inside the running task: an evaluator's or
\* the Verdict Agent's "except Exception" catches it while the call is in
\* flight, as does the try/except around the override-history lookup;
\* anywhere else it reaches the task's SoftTimeLimitExceeded handler
SoftTimeout ==
    /\ tpc \in BodyPcs
    /\ stl = "no"
    /\ IF tpc \in {"time_call", "content_call", "progress_call"}
       THEN \E stage \in StageSet :
              /\ tpc = CallPc(stage)
              /\ st' = StageFallbackState(stage, st)
              /\ tpc' = NextNode(stage)
              /\ stl' = "caught"
       ELSE IF tpc = "verdict_call"
       THEN /\ st' = VerdictState(st, VerdictFallback(st), "breaker")
            /\ tpc' = "refresh"
            /\ stl' = "caught"
       ELSE IF tpc = "feedback"
       THEN /\ tpc' = "time"
            /\ stl' = "caught"
            /\ UNCHANGED st
       ELSE /\ tpc' = "h_timeout"
            /\ stl' = "raised"
            /\ UNCHANGED st
    /\ UNCHANGED <<db, priors, tentry, retries, exc, outcome, apc, aentry, clock,
                   backendDown>>
    /\ UNCHANGED editvars

\* except SoftTimeLimitExceeded, lines 1740-1753
TimeoutHandler ==
    /\ tpc = "h_timeout"
    /\ db' = TimeoutUpdate(db)
    /\ Finish("timeout")
    /\ UNCHANGED <<priors, tentry, st, retries, exc, apc, aentry, clock, stl,
                   backendDown>>
    /\ UNCHANGED editvars

\* places where a repository call is made outside any try/except of a node:
\* the initial read and aggregate, the history query of Node 0, the
\* GlobalWisdom lookup of the learning Content Validator, the re-fetch and
\* the save
DbPoints == {"queued", "context", "content", "refresh", "save"}

\* the exception unwinds the task body: its locals are gone

ErrorTexts == {"connection refused", "other"}

TaskDbError ==
    /\ tpc \in DbPoints
    /\ tpc = "content" => st.intent = "lnd_tasks"
    /\ \E text \in ErrorTexts : exc' = text
    /\ tpc' = "except"
    /\ tentry' = NullEntry
    /\ st' = InitialState(NullEntry, 0)
    /\ UNCHANGED <<db, priors, retries, outcome, apc, aentry, clock, stl, backendDown>>
    /\ UNCHANGED editvars

UnavailableUpdateKeepsStatus(row) ==
    IF ~row.exists \/ row.admin_override THEN row
    ELSE [row EXCEPT !.ai_status = "error",
                     !.ai_chain_of_thought = "ollama_unavailable",
                     !.ai_analyzed_at = @ + 1]

\* lines 1774-1779
UnavailableUpdate(row) ==
    IF ~row.exists \/ row.admin_override THEN row
    ELSE [row EXCEPT !.ai_status = "error",
                     !.ai_chain_of_thought = "ollama_unavailable",
                     !.ai_analyzed_at = @ + 1,
                     !.status = "pending"]

\* line 1785: Entry.objects.filter(id=entry_id).update(ai_status='error')
ErrorUpdate(row) == IF ~row.exists THEN row ELSE [row EXCEPT !.ai_status = "error"]

\* except Exception, lines 1768-1789. self.retry(exc=e) re-raises e once
\* request.retries has reached max_retries; raised inside this except clause,
\* neither exception is seen by the except MaxRetriesExceededError clause of
\* the same try statement (lines 1755-1766), which no statement of the body
\* can enter. GenericHandlerRetryUncounted is the handler with a self.retry
\* that never counts its retries.
GenericHandlerRetryUncounted ==
    /\ tpc = "except"
    /\ IF exc = "connection refused"
       THEN /\ db' = UnavailableUpdate(db)
            /\ Finish("unavailable")
       ELSE /\ db' = ErrorUpdate(db)
            /\ tpc' = "queued"
            /\ UNCHANGED outcome
    /\ UNCHANGED <<priors, tentry, st, retries, exc, apc, aentry, clock, stl, backendDown>>
    /\ UNCHANGED editvars

GenericHandler ==
    /\ tpc = "except"
    /\ IF exc = "connection refused"
       THEN /\ db' = UnavailableUpdate(db)
            /\ Finish("unavailable")
            /\ UNCHANGED retries
       ELSE /\ db' = ErrorUpdate(db)
            /\ IF retries < max_retries
               THEN /\ retries' = retries + 1
                    /\ tpc' = "queued"
                    /\ UNCHANGED outcome
               ELSE /\ Finish("failed")
                    /\ UNCHANGED retries
    /\ UNCHANGED <<priors, tentry, st, exc, apc, aentry, clock, stl, backendDown>>
    /\ UNCHANGED editvars

\* time passes while Node 0 queries the history and while an evaluator's
\* inference call is in flight (the clock is read only by the guards)
Tick ==
    /\ tpc \in {"context", "time_call", "content_call", "progress_call"}
    /\ clock + CallTimeout <= MaxClock
    /\ clock' = clock + CallTimeout
    /\ UNCHANGED <<db, priors, tpc, tentry, st, retries, exc, outcome, apc, aentry,
                   stl, backendDown>>
    /\ UNCHANGED editvars

-----------------------------------------------------------------------------
(* EntryViewSet.override *)

OverrideStatuses == {"approved", "flagged", "rejected"}

\* entry = self.get_object()
OverrideRead ==
    /\ apc = "idle"
    /\ db.exists
    /\ db.is_active
    /\ aentry' = db
    /\ apc' = "loaded"
    /\ UNCHANGED <<db, priors, tpc, tentry, st, retries, exc, outcome, clock, stl,
                   backendDown>>
    /\ UNCHANGED editvars

\* lines 129-136: set the fields and entry.save() (every column is written)
OverrideSave ==
    /\ apc = "loaded"
    /\ \E new_status \in OverrideStatuses :
         aentry' = [aentry EXCEPT !.status = new_status, !.admin_override = TRUE]
    /\ db' = EntrySave(db, aentry', {}).row
    /\ dispatches' = dispatches + EntrySave(db, aentry', {}).queued
    /\ apc' = "done"
    /\ UNCHANGED <<priors, tpc, tentry, st, retries, exc, outcome, clock, stl,
                   backendDown>>
    /\ UNCHANGED <<epc, eentry, run2, basis>>

-----------------------------------------------------------------------------
(* cleanup_data.py *)

\* Entry.objects.all().delete(): the row is gone
cleanup ==
    /\ db.exists
    /\ db' = [db EXCEPT !.exists = FALSE]
    /\ UNCHANGED <<priors, tpc, tentry, st, retries, exc, outcome, apc, aentry, clock,
                   stl, backendDown>>
    /\ UNCHANGED editvars

-----------------------------------------------------------------------------
(* Inputs *)

\* descriptions, by their lexemes and by what the fallback judges measure
LongText == Description(45, 2, <<Tok("x", 300)>>)
ShortText == Description(12, 0, <<Tok("x", 70)>>)

MkPrior(date, jsim, ssim) ==
    [date |-> date, hours |-> 20, progress |-> 10, jsim |-> jsim, ssim |-> ssim,
     learned_text |-> RawText(<<Tok("x", 150)>>)]

\* a history of MaxPriors entries of which only the oldest resembles the
\* current description
LongHistory ==
    [i \in 1..MaxPriors |->
        IF i = MaxPriors THEN MkPrior(MaxPriors + 1 - i, 980, 900)
        ELSE MkPrior(MaxPriors + 1 - i, 100, 250)]

PriorLists == {<<>>, <<MkPrior(1, 980, 640)>>, <<MkPrior(1, 700, 655)>>, LongHistory}

\* a previously approved entry whose edit reset ai_status (signals.py:70)
Reanalysed(e) ==
    [e EXCEPT !.status = "approved", !.ai_decision = "approve",
              !.ai_confidence = <<9000>>, !.ai_chain_of_thought = "trace",
              !.ai_analyzed_at = 1]

StageResponses ==
    {MkResp("PASS", <<90>>), MkResp("FAIL", <<>>)}

FinalResponses ==
    {MkResp("APPROVE", <<95>>), MkResp("PENDING", <<>>)}

InitEntries ==
    {NewEntry("lnd_tasks", MkTopic(30, 3), 20, LongText, 20, FALSE),
     Reanalysed(NewEntry("sbu_tasks", NoTopic, 100, ShortText, 40, TRUE))}

-----------------------------------------------------------------------------
(* EntryViewSet.create and EntryViewSet.update *)

\* the row before the entry is created
NoRow == [NullEntry EXCEPT !.exists = FALSE]

\* perform_create (views.py:89-90): serializer.save(user=...) inserts the row
\* and the post_save receiver queues the first analysis
perform_create(entries) ==
    /\ tpc = "idle"
    /\ ~db.exists
    /\ dispatches = 0
    /\ \E e \in entries :
         /\ db' = EntrySave(db, e, {}).row
         /\ dispatches' = dispatches + EntrySave(db, e, {}).queued
    /\ tpc' = IF dispatches' > 0 THEN "queued" ELSE "idle"
    /\ UNCHANGED <<priors, tentry, st, retries, exc, outcome, apc, aentry, clock, stl,
                   backendDown, epc, eentry, run2, basis>>

\* the fields an update request may set (EntrySerializer.Meta, lines 58-74)
EditFields == {"hours", "learned_text", "blockers_text", "topic_id",
               "progress_percent", "is_completed", "project_description"}

\* the instance after serializer.update() has set one field to another value
Edited(e, field) ==
    CASE field = "hours" -> [e EXCEPT !.hours = IF @ = 20 THEN 30 ELSE 20]
      [] field = "learned_text" ->
           [e EXCEPT !.learned_text = IF @ = LongText THEN ShortText ELSE LongText]
      [] field = "blockers_text" ->
           [e EXCEPT !.blockers_text = RawText(<<Tok("x", 40)>>)]
      [] field = "topic_id" ->
           [e EXCEPT !.topic = IF @ = MkTopic(30, 5) THEN MkTopic(30, 3)
                               ELSE MkTopic(30, 5)]
      [] field = "progress_percent" ->
           [e EXCEPT !.progress_percent = IF @ = 100 THEN 50 ELSE 100]
      [] field = "is_completed" -> [e EXCEPT !.is_completed = ~@]
      [] field = "project_description" ->
           [e EXCEPT !.project_description = RawText(<<Tok("x", 90)>>)]

\* instance = self.get_object() (queryset: active entries, views.py:81-87)
EditRead ==
    /\ epc = "idle"
    /\ db.exists
    /\ db.is_active
    /\ eentry' = db
    /\ epc' = "loaded"
    /\ UNCHANGED <<db, priors, tpc, tentry, st, retries, exc, outcome, apc, aentry,
                   clock, stl, backendDown, dispatches, run2, basis>>

\* perform_update (views.py:92-93): serializer.save() sets the field and
\* calls instance.save(), which writes every column and runs the receivers
EditSave ==
    /\ epc = "loaded"
    /\ \E field \in EditFields :
         /\ eentry' = Edited(eentry, field)
         /\ db' = EntrySave(db, eentry', {}).row
         /\ dispatches' = dispatches + EntrySave(db, eentry', {}).queued
    /\ epc' = "done"
    /\ UNCHANGED <<priors, tpc, tentry, st, retries, exc, outcome, apc, aentry, clock,
                   stl, backendDown, run2, basis>>

-----------------------------------------------------------------------------
(* A second execution of analyze_entry_task, for the analysis queued by an   *)
(* update; brain.invoke is taken as one step                                 *)

IdleRun == [pc |-> "off", entry |-> NullEntry, state |-> InitialState(NullEntry, 0),
            outcome |-> "none"]

\* no update request and no second execution
NoEdits ==
    /\ dispatches = 1
    /\ epc = "off"
    /\ eentry = NullEntry
    /\ run2 = IdleRun
    /\ basis = InputsOfRow(NullEntry)

\* the states brain.invoke(state) may return (tasks.py:1558-1595, 1709): each
\* evaluator records the verdict of its inference call or of its fallback,
\* then the Verdict Agent decides
BrainInvoke(state, prior_entries, feedback, responses, finals) ==
    LET s0 == [context_gatherer(state, prior_entries) EXCEPT !.feedback = feedback]
        After(stage, S) ==
            UNION {{StageInferenceState(stage, s, r) : r \in responses}
                   \cup {StageFallbackState(stage, s)} : s \in S}
        s3 == After("progress", After("content", After("time", {s0})))
    IN UNION {{VerdictState(s, VerdictInference(s, f), "ai") : f \in finals}
              \cup {VerdictState(s, VerdictFallback(s), "breaker")} : s \in s3}

\* lines 1615-1699, for the message queued after the creation's
Run2Start ==
    /\ run2.pc = "idle"
    /\ dispatches > 1
    /\ run2' = IF ~db.exists
               THEN [run2 EXCEPT !.pc = "done", !.outcome = "not_found"]
               ELSE IF db.admin_override
               THEN [run2 EXCEPT !.pc = "done", !.outcome = "skipped"]
               ELSE [run2 EXCEPT !.pc = "invoke", !.entry = db,
                                 !.state = InitialState(db, clock)]
    /\ UNCHANGED <<db, priors, tpc, tentry, st, retries, exc, outcome, apc, aentry,
                   clock, stl, backendDown, dispatches, epc, eentry, basis>>

Run2Invoke(responses, finals) ==
    /\ run2.pc = "invoke"
    /\ \E s \in BrainInvoke(run2.state, priors,
                             IF db.admin_override /\ db.ai_status = "analyzed"
                                /\ db.is_active
                             THEN AdminFeedback({db}) ELSE "none",
                             responses, finals) :
         run2' = [run2 EXCEPT !.pc = "refresh", !.state = s]
    /\ UNCHANGED <<db, priors, tpc, tentry, st, retries, exc, outcome, apc, aentry,
                   clock, stl, backendDown, dispatches, epc, eentry, basis>>

\* Race Condition Guard, lines 1711-1714
Run2Refresh ==
    /\ run2.pc = "refresh"
    /\ run2' = IF ~db.exists
               THEN [run2 EXCEPT !.pc = "done", !.outcome = "not_found"]
               ELSE IF db.admin_override
               THEN [run2 EXCEPT !.pc = "done", !.outcome = "overridden", !.entry = db]
               ELSE [run2 EXCEPT !.pc = "save", !.entry = db]
    /\ UNCHANGED <<db, priors, tpc, tentry, st, retries, exc, outcome, apc, aentry,
                   clock, stl, backendDown, dispatches, epc, eentry, basis>>

\* Save Results, lines 1716-1734 (the row is there in every specification
\* that runs a second execution)
Run2Save ==
    /\ run2.pc = "save"
    /\ db.exists
    /\ LET entry == Analyzed(run2.entry, run2.state, db.ai_analyzed_at + 1)
       IN /\ run2' = [run2 EXCEPT !.pc = "done", !.outcome = "analyzed",
                                  !.entry = entry]
          /\ db' = EntrySave(db, entry, AnalysisFields).row
          /\ dispatches' = dispatches + EntrySave(db, entry, AnalysisFields).queued
    /\ basis' = InputsOf(run2.state)
    /\ UNCHANGED <<priors, tpc, tentry, st, retries, exc, outcome, apc, aentry, clock,
                   stl, backendDown, epc, eentry>>

-----------------------------------------------------------------------------
(* The task racing with an override request *)

Init ==
    /\ db \in InitEntries
    /\ priors \in {<<>>, <<MkPrior(1, 980, 640)>>}
    /\ tpc = "queued"
    /\ tentry = NullEntry
    /\ st = InitialState(NullEntry, 0)
    /\ retries = 0
    /\ exc = "none"
    /\ outcome = "none"
    /\ apc = "idle"
    /\ aentry = NullEntry
    /\ clock = 0
    /\ stl = "no"
    /\ backendDown = FALSE
    /\ NoEdits

Next ==
    \/ TaskStart
    \/ ContextGather
    \/ ContextFeedback
    \/ \E stage \in StageSet : StageEnter(stage)
    \/ \E stage \in StageSet : StageAnswer(stage, StageResponses)
    \/ \E stage \in StageSet : StageFail(stage)
    \/ VerdictEnter
    \/ VerdictAnswer(FinalResponses)
    \/ VerdictFail
    \/ TaskRefresh
    \/ TaskSave
    \/ SoftTimeout
    \/ TimeoutHandler
    \/ TaskDbError
    \/ GenericHandler
    \/ Tick
    \/ OverrideRead
    \/ OverrideSave

Spec == Init /\ [][Next]_vars

-----------------------------------------------------------------------------
(* The pipeline alone, over a wider range of entries and inference answers *)

PipeEntries ==
    {NewEntry("lnd_tasks", MkTopic(30, 3), 20, LongText, 20, FALSE),
     NewEntry("lnd_tasks", MkTopic(30, 5), 120, ShortText, 40, TRUE),
     NewEntry("lnd_tasks", MkTopic(0, 1), 50, LongText, 100, TRUE),
     NewEntry("sbu_tasks", NoTopic, 30, LongText, 100, FALSE),
     Reanalysed(NewEntry("sbu_tasks", NoTopic, 100, ShortText, 0, FALSE)),
     NewEntry("sbu_tasks", NoTopic, 5, ShortText, 60, TRUE)}

PipeStageResponses ==
    {MkResp(tok, conf) : tok \in {"PASS", "FLAG", "FAIL"}, conf \in {<<>>, <<95>>}}

PipeFinalResponses ==
    {MkResp(tok, conf) : tok \in {"APPROVE", "PASS", "FLAG", "PENDING", "none"},
                         conf \in {<<>>, <<120>>}}
    \cup {EmptyResp}

InitPipe ==
    /\ db \in PipeEntries
    /\ priors \in PriorLists
    /\ tpc = "queued"
    /\ tentry = NullEntry
    /\ st = InitialState(NullEntry, 0)
    /\ retries = 0
    /\ exc = "none"
    /\ outcome = "none"
    /\ apc = "off"
    /\ aentry = NullEntry
    /\ clock = 0
    /\ stl = "no"
    /\ backendDown \in BOOLEAN
    /\ NoEdits

NextPipe ==
    \/ TaskStart
    \/ ContextGather
    \/ ContextFeedback
    \/ \E stage \in StageSet : StageEnter(stage)
    \/ \E stage \in StageSet : StageAnswer(stage, PipeStageResponses)
    \/ \E stage \in StageSet : StageFail(stage)
    \/ VerdictEnter
    \/ VerdictAnswer(PipeFinalResponses)
    \/ VerdictFail
    \/ TaskRefresh
    \/ TaskSave
    \/ Tick

SpecPipe == InitPipe /\ [][NextPipe]_vars

-----------------------------------------------------------------------------
(* The task with failing repository calls and a concurrent hard delete *)

FailStageResponses == {MkResp("PASS", <<90>>)}

InitFail ==
    /\ db \in InitEntries
    /\ priors \in {<<>>, <<MkPrior(1, 980, 640)>>}
    /\ tpc = "queued"
    /\ tentry = NullEntry
    /\ st = InitialState(NullEntry, 0)
    /\ retries = 0
    /\ exc = "none"
    /\ outcome = "none"
    /\ apc = "off"
    /\ aentry = NullEntry
    /\ clock = 0
    /\ stl = "no"
    /\ backendDown = FALSE
    /\ NoEdits

NextFail ==
    \/ TaskStart
    \/ ContextGather
    \/ ContextFeedback
    \/ \E stage \in StageSet : StageEnter(stage)
    \/ \E stage \in StageSet : StageAnswer(stage, FailStageResponses)
    \/ \E stage \in StageSet : StageFail(stage)
    \/ VerdictEnter
    \/ VerdictAnswer(FinalResponses)
    \/ VerdictFail
    \/ TaskRefresh
    \/ TaskSave
    \/ TaskDbError
    \/ GenericHandler
    \/ cleanup

SpecFail == InitFail /\ [][NextFail]_vars

-----------------------------------------------------------------------------
(* The description on its way into the prompt of the Time stage *)

Ws == Tok("ws", 1)

\* matches of each pattern, words and characters the patterns are made of,
\* quotes, and filler of several lengths
Pieces ==
    {<<Tok("ignore", 6), Ws, Tok("previous", 8), Ws, Tok("instruction", 11), Tok("s", 1)>>,
     <<Tok("Ignore", 6), Ws, Ws, Tok("all", 3), Ws, Tok("PREVIOUS", 8), Ws,
       Tok("instruction", 11)>>,
     <<Tok("forget", 6), Ws, Tok("previous", 8)>>,
     <<Tok("disregard", 9), Ws, Tok("all", 3), Ws, Tok("above", 5)>>,
     <<Tok("new", 3), Ws, Tok("instruction", 11), Tok("s", 1), Tok(":", 1)>>,
     <<Tok("system", 6), Tok(":", 1)>>,
     <<Tok("SYSTEM", 6), Ws, Ws, Tok(":", 1)>>,
     <<Tok("[", 1), Tok("system", 6), Tok("]", 1)>>,
     <<Tok("[", 1), Tok("assistant", 9), Tok("]", 1)>>,
     <<Tok("you", 3), Ws, Tok("are", 3), Ws, Tok("now", 3)>>,
     <<Tok("pretend", 7), Ws, Tok("to", 2), Ws, Tok("be", 2)>>,
     <<Tok("act", 3), Ws, Tok("as", 2), Ws, Tok("if", 2)>>,
     <<Tok("ignore", 6), Ws>>,
     <<Tok("previous", 8), Ws, Tok("instruction", 11)>>,
     <<Tok("system", 6)>>,
     <<Tok("[", 1)>>,
     <<Tok("]", 1)>>,
     <<Tok(":", 1)>>,
     <<Tok("s", 1)>>,
     <<Ws>>,
     <<Tok("dq", 1)>>,
     <<Tok("dq", 1), Tok("dq", 1), Tok("dq", 1)>>,
     <<Tok("sq", 1), Tok("sq", 1), Tok("sq", 1)>>,
     <<Tok("x", 1)>>,
     <<Tok("x", 250)>>,
     <<Tok("x", 493)>>,
     <<Tok("x", 499)>>}

RECURSIVE Flatten(_)
Flatten(ps) == IF ps = <<>> THEN <<>> ELSE Head(ps) \o Flatten(Tail(ps))

Texts == {Flatten(ps) : ps \in UNION {[1..k -> Pieces] : k \in 0..MaxPieces}}

InitSanitize ==
    /\ \E toks \in Texts, none \in BOOLEAN :
         db = [NewEntry("lnd_tasks", MkTopic(30, 3), 20, LongText, 20, FALSE)
                  EXCEPT !.learned_text =
                      [@ EXCEPT !.toks = IF none THEN <<>> ELSE toks, !.none = none]]
    /\ priors = <<>>
    /\ tpc = "queued"
    /\ tentry = NullEntry
    /\ st = InitialState(NullEntry, 0)
    /\ retries = 0
    /\ exc = "none"
    /\ outcome = "none"
    /\ apc = "off"
    /\ aentry = NullEntry
    /\ clock = 0
    /\ stl = "no"
    /\ backendDown = FALSE
    /\ NoEdits

NextSanitize ==
    \/ TaskStart
    \/ ContextGather
    \/ ContextFeedback
    \/ StageEnter("time")

SpecSanitize == InitSanitize /\ [][NextSanitize]_vars

-----------------------------------------------------------------------------
(* An entry is created and edited while its analyses run *)

EditEntries ==
    {NewEntry("lnd_tasks", MkTopic(30, 3), 20, LongText, 20, FALSE),
     NewEntry("sbu_tasks", NoTopic, 30, ShortText, 100, TRUE)}

InitEdit ==
    /\ db = NoRow
    /\ priors = <<>>
    /\ tpc = "idle"
    /\ tentry = NullEntry
    /\ st = InitialState(NullEntry, 0)
    /\ retries = 0
    /\ exc = "none"
    /\ outcome = "none"
    /\ apc = "off"
    /\ aentry = NullEntry
    /\ clock = 0
    /\ stl = "no"
    /\ backendDown = FALSE
    /\ dispatches = 0
    /\ epc = "idle"
    /\ eentry = NullEntry
    /\ run2 = [IdleRun EXCEPT !.pc = "idle"]
    /\ basis = InputsOfRow(NullEntry)

NextEdit ==
    \/ perform_create(EditEntries)
    \/ TaskStart
    \/ ContextGather
    \/ ContextFeedback
    \/ \E stage \in StageSet : StageEnter(stage)
    \/ \E stage \in StageSet : StageAnswer(stage, FailStageResponses)
    \/ \E stage \in StageSet : StageFail(stage)
    \/ VerdictEnter
    \/ VerdictAnswer(FinalResponses)
    \/ VerdictFail
    \/ TaskRefresh
    \/ TaskSave
    \/ EditRead
    \/ EditSave
    \/ Run2Start
    \/ Run2Invoke(FailStageResponses, FinalResponses)
    \/ Run2Refresh
    \/ Run2Save

SpecEdit == InitEdit /\ [][NextEdit]_vars

-----------------------------------------------------------------------------
(* The Verdict Agent alone, over every combination of upstream verdicts *)

VerdictRecords ==
    {NoVerdict} \cup {MkVerdict(v, c) : v \in {"PASS", "CONCERN", "FAIL"},
                                        c \in {0, 45, 75, 100}}

\* a state as the evaluators may hand it to Node 4 (a verdict may be missing)
InitVerdict ==
    /\ db \in {NewEntry("lnd_tasks", MkTopic(30, 3), 20, LongText, 20, FALSE)}
    /\ priors = <<>>
    /\ tpc = "verdict"
    /\ tentry = db
    /\ \E tv \in VerdictRecords, cv \in VerdictRecords, pv \in VerdictRecords,
          flagged \in BOOLEAN :
         st = [InitialState(db, 0) EXCEPT
                  !.node_verdicts = [s \in StageSet |->
                      IF s = "time" THEN tv ELSE IF s = "content" THEN cv ELSE pv],
                  !.copy_paste_flagged = flagged,
                  !.copy_paste_max_similarity = IF flagged THEN 980 ELSE 0,
                  !.path = [n \in DOMAIN PathNone |->
                              IF n = "context" THEN "logic"
                              ELSE IF n = "verdict" THEN "none" ELSE "ai"]]
    /\ retries = 0
    /\ exc = "none"
    /\ outcome = "none"
    /\ apc = "off"
    /\ aentry = NullEntry
    /\ clock \in {0, MaxClock}
    /\ stl = "no"
    /\ backendDown \in BOOLEAN
    /\ NoEdits

NextVerdict ==
    \/ VerdictEnter
    \/ VerdictAnswer(PipeFinalResponses)
    \/ VerdictFail

SpecVerdict == InitVerdict /\ [][NextVerdict]_vars

-----------------------------------------------------------------------------
(* Properties *)

\* a step of analyze_entry_task
TaskStep ==
    \/ TaskStart
    \/ ContextGather
    \/ ContextFeedback
    \/ \E stage \in StageSet : StageEnter(stage)
    \/ \E stage \in StageSet : StageAnswer(stage, StageResponses)
    \/ \E stage \in StageSet : StageFail(stage)
    \/ VerdictEnter
    \/ VerdictAnswer(FinalResponses)
    \/ VerdictFail
    \/ TaskRefresh
    \/ TaskSave
    \/ SoftTimeout
    \/ TimeoutHandler
    \/ TaskDbError
    \/ GenericHandler

FallbackStages(state) == {s \in StageSet : state.path[s] = "breaker"}

VerdictDone(state) == state.path["verdict"] # "none"

\* C1: the terminal write of a run leaves the AI fields of the entry as they
\* are when admin_override has been set since the run started, the window
\* between the re-fetch and the save included.
C1_TerminalWriteKeepsAIFields ==
    [][TaskSave => (db.admin_override => AIFields(db') = AIFields(db))]_vars

\* C2: no step of the pipeline changes any field of a row whose
\* admin_override is true when the step writes, and a run that finds the
\* entry overridden at its start is skipped without a write.
C2_NoPipelineWriteUnderOverride ==
    [][(TaskStep /\ db.admin_override) =>
          /\ db' = db
          /\ (TaskStart => outcome' = "skipped")]_vars

\* C3: once the override request has been saved, the status of the entry is
\* the status the admin chose, whatever a concurrently running analysis does.
C3_AdminStatusStays ==
    apc = "done" => db.status = aentry.status

\* C4: if more than one evaluator took its fallback path, the final decision
\* of the Verdict Agent is not approve.
C4_NoApproveAfterTwoFallbacks ==
    Cardinality(FallbackStages(st)) > 1 => st.final_decision # "approve"

\* C4 witness: two fallbacks, the Verdict Agent answered by inference and the
\* guardrail turned its approve (confidence 100) into flag at 75.
C4_Witness ==
    /\ Cardinality(FallbackStages(st)) = 2
    /\ st.path["verdict"] = "ai"
    /\ st.final_decision = "flag"
    /\ st.final_confidence = 7500
    /\ outcome = "analyzed"

\* C5: if one of the 10 most recent prior entries is more than 0.70 similar
\* to the description, the final decision of the run is not approve.
C5_NoApproveOnCopyPaste ==
    (/\ st.path["context"] = "logic"
     /\ \E i \in 1..Min(10, Len(priors)) :
            Max(priors[i].jsim, priors[i].ssim) > CopyPasteThreshold)
    => /\ st.copy_paste_flagged
       /\ st.final_decision # "approve"
       /\ (outcome = "analyzed" => db.ai_decision # "approve")

\* C5 witness: copy-paste flagged, the three evaluators said PASS by
\* inference, the Verdict Agent's approve was turned into flag at 70.
C5_Witness ==
    /\ st.copy_paste_flagged
    /\ \A s \in StageSet : st.path[s] = "ai" /\ st.node_verdicts[s].verdict = "PASS"
    /\ st.path["verdict"] = "ai"
    /\ st.final_decision = "flag"
    /\ st.final_confidence = 7000
    /\ outcome = "analyzed"
    /\ db.ai_decision = "flag"

\* C6: when the Verdict Agent takes its fallback path, the final decision is
\* not approve, whatever the three upstream verdicts (missing ones included).
C6_FallbackNeverApproves ==
    st.path["verdict"] = "breaker" => st.final_decision \in {"flag", "pending"}

\* C6 witness: the fallback voted on three PASS verdicts at confidence 100.
C6_Witness ==
    /\ st.path["verdict"] = "breaker"
    /\ \A s \in StageSet : st.node_verdicts[s] = MkVerdict("PASS", 100)
    /\ st.final_decision = "flag"
    /\ st.final_confidence = 8000

\* C6 witness for a missing verdict: it is counted as CONCERN.
C6_WitnessMissing ==
    /\ st.path["verdict"] = "breaker"
    /\ \E s \in StageSet : ~st.node_verdicts[s].present
    /\ st.final_decision = "flag"

\* C7: a run in which at least one evaluator took its fallback path ends
\* with the decision pending, and not with approve.
C7_FallbackMeansPending ==
    (FallbackStages(st) # {} /\ VerdictDone(st))
    => (st.final_decision = "pending" /\ st.final_decision # "approve")

\* C8: with the inference backend unreachable, the three evaluators have all
\* fallen back when the Verdict Agent starts (ai_failures = 3), the Verdict
\* Agent falls back too, and the decision persisted is flag or pending.
C8_BackendDownNeverApproves ==
    backendDown =>
       /\ (tpc \in {"verdict", "verdict_call", "refresh", "save", "done"}
             /\ outcome # "skipped")
          => (st.ai_failures = 3 /\ FallbackStages(st) = StageSet)
       /\ VerdictDone(st) => st.path["verdict"] = "breaker"
       /\ outcome = "analyzed" => db.ai_decision \in {"flag", "pending"}

\* C8 witness: every call was issued and failed; the run persisted flag.
C8_Witness ==
    /\ backendDown
    /\ st.called = StageSet \cup {"verdict"}
    /\ st.ai_failures = 3
    /\ st.path["verdict"] = "breaker"
    /\ outcome = "analyzed"
    /\ db.ai_decision = "flag"
    /\ db.ai_status = "analyzed"

Order(n) == CASE n = "time" -> 1 [] n = "content" -> 2
              [] n = "progress" -> 3 [] n = "verdict" -> 4

\* C9: a node that starts more than 55 seconds after pipeline start takes
\* its fallback path and issues no inference call, and no node after it
\* issues one either.
C9_GuardStopsInference ==
    \A n \in StageSet \cup {"verdict"} :
       st.started[n] = "late" =>
          /\ n \notin st.called
          /\ st.path[n] = "breaker"
          /\ \A m \in StageSet \cup {"verdict"} :
                (Order(m) > Order(n) /\ st.started[m] # "no") =>
                    (m \notin st.called /\ st.path[m] = "breaker")

\* C9 witness: the guard tripped mid-run, after the Time stage had called
\* the backend; the remaining nodes all fell back without a call.
C9_Witness ==
    /\ st.called = {"time"}
    /\ st.path["time"] = "ai"
    /\ st.started["time"] = "in_time"
    /\ st.started["content"] = "late"
    /\ st.path["content"] = "breaker"
    /\ st.path["progress"] = "breaker"
    /\ st.path["verdict"] = "breaker"
    /\ st.ai_failures = 2
    /\ outcome = "analyzed"

\* C10: when the soft time limit has fired during the run of a
\* non-overridden entry (and nothing else failed), the entry ends with
\* ai_status timeout, decision flag and confidence -1.
C10_SoftTimeoutMarksEntry ==
    (stl # "no" /\ tpc = "done" /\ exc = "none" /\ ~db.admin_override)
    => /\ db.ai_status = "timeout"
       /\ db.ai_decision = "flag"
       /\ db.ai_confidence = <<TimeoutConfidence>>

\* C11: when a run has failed with an unexpected error on every execution the
\* retry budget allows, the (existing, not overridden) entry has ai_status
\* error, status pending and an explanatory chain-of-thought.
C11_RetryExhaustionMarksEntry ==
    (outcome = "failed" /\ db.exists /\ ~db.admin_override)
    => /\ db.ai_status = "error"
       /\ db.status = "pending"
       /\ db.ai_chain_of_thought = "max_retries_exceeded"

C13_MissingEntryIsNoOp ==
    [][((TaskStart \/ TaskRefresh) /\ ~db.exists) =>
          /\ db' = db
          /\ outcome' = "not_found"
          /\ tpc' = "done"
          /\ retries' = retries
          /\ exc' = exc]_vars

\* C13 witness: the row was deleted while the pipeline ran; the run went
\* through the Verdict Agent and ended at the re-fetch without a retry.
C13_Witness ==
    /\ outcome = "not_found"
    /\ VerdictDone(st)
    /\ ~db.exists
    /\ retries = 0
    /\ db.ai_status = "pending"

\* C18: while the Context Aggregator runs, nothing takes the run anywhere
\* but on to the Time stage: a failing lookup is absorbed.
C18_ContextNeverFails ==
    [][(tpc \in {"context", "feedback"}) =>
          (tpc' \in {"context", "feedback", "time"})]_vars

\* C14: the terminal write sets ai_status analyzed and persists the decision,
\* the confidence and the trace together with the status: approved for
\* approve, flagged for flag, and the status the row had for pending.
C14_DecisionMapsToStatus ==
    [][(TaskSave /\ db.exists) =>
          /\ db'.ai_status = "analyzed"
          /\ db'.ai_decision = st.final_decision
          /\ db'.ai_confidence = <<st.final_confidence>>
          /\ db'.ai_chain_of_thought = "trace"
          /\ db'.status = CASE st.final_decision = "approve" -> "approved"
                             [] st.final_decision = "flag" -> "flagged"
                             [] OTHER -> db.status]_vars

\* C14 witness: a previously approved entry was re-analysed with the
\* decision pending; it is analysed and still approved.
C14_Witness ==
    /\ outcome = "analyzed"
    /\ db.ai_status = "analyzed"
    /\ db.ai_decision = "pending"
    /\ db.ai_chain_of_thought = "trace"
    /\ db.status = "approved"

\* C15: when Node 0 found the progress incoherent, the verdict the
\* Progress/Scope stage records is CONCERN or FAIL, on either path.
C15_IncoherentProgressNeverPasses ==
    (/\ st.path["context"] = "logic"
     /\ ~st.progress_coherent
     /\ st.node_verdicts["progress"].present)
    => st.node_verdicts["progress"].verdict \in {"CONCERN", "FAIL"}

\* C16: when Node 0 found the progress incoherent, the confidence the
\* Progress/Scope stage records is the raw confidence (of the answer on the
\* inference path, of the fallback judge on the fallback path) minus 20.
C16_FlatCoherencePenalty ==
    [][(/\ tpc \in {"progress", "progress_call"}
        /\ ~st.progress_coherent
        /\ st'.path["progress"] # "none") =>
          /\ \A r \in PipeStageResponses :
                (st' = StageInferenceState("progress", st, r)) =>
                    st'.node_verdicts["progress"].confidence
                        = extract_verdict(r).confidence - 20
          /\ (st'.path["progress"] = "breaker") =>
                st'.node_verdicts["progress"].confidence
                    = StageFallback("progress", st).confidence - 20]_vars

C17_WitnessFirstEntry ==
    /\ st.path["context"] = "logic"
    /\ priors = <<>>
    /\ st.prior_entries_count = 0
    /\ Len(st.progress_trajectory) = 1
    /\ outcome = "analyzed"

\* C19: every user text (description, blocker text, description of a prior
\* entry, project description) that has been compared for similarity or put
\* into a prompt so far had passed through sanitize_input.
C19_UserTextSanitizedBeforeUse ==
    \A u \in st.uses : u.clean

\* C20: the description as sanitize_input returns it for the prompt of the
\* Time stage has at most 500 characters and no match of an injection
\* pattern, and is empty when the stored description is empty or missing.
C20_SanitizeOutputBounded ==
    tpc = "time_call" =>
        /\ st.text.clean
        /\ TextLen(st.text.toks) <= SanitizeLimit
        /\ ~HasInjection(st.text.toks)
        /\ (db.learned_text.none \/ db.learned_text.toks = <<>>) => st.text.toks = <<>>
        /\ sanitize_input(NoneText).toks = <<>>

\* C20 witness: a description of 500 characters that ends in an injection;
\* the replacement made it longer and the cut went through '[REMOVED]'.
C20_Witness ==
    /\ tpc = "time_call"
    /\ HasInjection(db.learned_text.toks)
    /\ TextLen(db.learned_text.toks) = SanitizeLimit
    /\ TextLen(st.text.toks) = SanitizeLimit
    /\ st.text.toks[Len(st.text.toks)].w = "cut"
    /\ st.text.toks[Len(st.text.toks) - 1].w = "["

-----------------------------------------------------------------------------
(* Properties of creation, update and overlapping executions *)

\* the inputs analyze_entry_task reads from the row (tasks.py:1641-1672)
PipelineInputs == {"hours", "learned_text", "blockers_text", "topic_id",
                   "progress_percent", "is_completed", "project_description",
                   "intent"}

\* C21: every edit of an active, non-overridden entry that changes an input
\* the pipeline reads queues a re-analysis, and so does every creation of an
\* active entry.
C21_MaterialEditDispatches ==
    [][/\ (perform_create(EditEntries) /\ db'.is_active)
             => (dispatches' = dispatches + 1)
       /\ (/\ EditSave
           /\ db.is_active /\ ~db.admin_override /\ ~eentry'.admin_override
           /\ \E field \in PipelineInputs : FieldOf(db, field) # FieldOf(eentry', field))
             => (dispatches' = dispatches + 1)]_vars

\* a step of the second execution
Run2Step ==
    \/ Run2Start
    \/ Run2Invoke(FailStageResponses, FinalResponses)
    \/ Run2Refresh
    \/ Run2Save

\* C27: when two executions for the same entry overlap, an execution that
\* read older data does not overwrite the persisted analysis of an execution
\* that read the entry's latest data.
C27_StaleRunNeverOverwrites ==
    [][((TaskSave \/ Run2Save) /\ db.ai_status = "analyzed"
            /\ basis = InputsOfRow(db))
          => (basis' = InputsOfRow(db'))]_vars

\* C28: a non-overridden entry whose analysis is persisted with the decision
\* flag or pending does not have the status approved.
C28_FlagOrPendingNotApproved ==
    (db.exists /\ ~db.admin_override /\ db.ai_status = "analyzed"
        /\ db.ai_decision \in {"flag", "pending"})
      => db.status # "approved"

\* C29: no step of an execution queues an analysis; the count of queued
\* analyses changes only by a creation or an update request, by one, and a
\* creation always adds one.
C29_PipelineWritesDispatchNothing ==
    [][/\ (TaskStep \/ Run2Step) => (dispatches' = dispatches)
       /\ (dispatches' # dispatches)
             => (/\ dispatches' = dispatches + 1
                 /\ perform_create(EditEntries) \/ EditSave)
       /\ perform_create(EditEntries) => (dispatches' = dispatches + 1)]_vars

\* the terminal save has written an instance whose hours, description,
\* blockers or topic differ from the row's (an update came between the
\* re-fetch and the save), and the edit's analysis is the only one queued since
C29_Witness ==
    /\ tpc = "done" /\ outcome = "analyzed"
    /\ epc = "done"
    /\ run2.pc = "idle"
    /\ dispatches = 2
    /\ db.ai_status = "analyzed"
    /\ track_changes_for_ai(db, tentry)

\* C30: saving an override leaves the AI fields of the row as the terminal
\* write of a finished analysis left them, wherever that write falls between
\* the override request's read and its save.
C30_OverrideKeepsAIFields ==
    [][(OverrideSave /\ outcome = "analyzed") => (AIFields(db') = AIFields(db))]_vars

-----------------------------------------------------------------------------
(* Properties of the stage sequence and of the stages' numbers *)

\* the five stages, and the stage a position of the task belongs to
StageNo(pc) ==
    CASE pc \in {"context", "feedback"} -> 0
      [] pc \in {"time", "time_call"} -> 1
      [] pc \in {"content", "content_call"} -> 2
      [] pc \in {"progress", "progress_call"} -> 3
      [] pc \in {"verdict", "verdict_call"} -> 4
      [] pc \in {"refresh", "save"} -> 5

InBrain(pc) == pc \in BodyPcs /\ StageNo(pc) < 5

\* C22: within an execution the stages run in the order Context, Time,
\* Content/Work, Progress/Scope, Verdict, none twice and none skipped, in
\* both pipeline variants; the Verdict stage starts with all three evaluator
\* verdicts recorded, final_decision is pending until the Verdict stage has
\* run, and when the pipeline returns every stage has run.
C22_StagesInOrder ==
    [][/\ (InBrain(tpc) /\ tpc' \in BodyPcs /\ tpc' # tpc) =>
             /\ StageNo(tpc') \in {StageNo(tpc), StageNo(tpc) + 1}
             /\ (StageNo(tpc') = StageNo(tpc)) =>
                   (tpc' \in {"feedback", "time_call", "content_call",
                              "progress_call", "verdict_call"})
             /\ (StageNo(tpc') = StageNo(tpc) + 1 /\ StageNo(tpc) > 0) =>
                   (st'.path[IF StageNo(tpc) = 1 THEN "time"
                             ELSE IF StageNo(tpc) = 2 THEN "content"
                             ELSE IF StageNo(tpc) = 3 THEN "progress"
                             ELSE "verdict"] # "none")
       /\ (tpc' = "verdict") =>
             (\A s \in StageSet : st'.node_verdicts[s].present)
       /\ (tpc' \in BodyPcs /\ st'.path["verdict"] = "none") =>
             (st'.final_decision = "pending")
       /\ (tpc' = "refresh") =>
             (\A n \in DOMAIN PathNone : st'.path[n] # "none")]_vars

\* the project pipeline has returned, every stage having run
C22_Witness ==
    /\ tpc = "refresh"
    /\ st.intent = "sbu_tasks"
    /\ \A n \in DOMAIN PathNone : st.path[n] # "none"
    /\ st.final_decision = "approve"

\* the same for the learning pipeline
C22_WitnessLearning ==
    /\ tpc = "refresh"
    /\ st.intent = "lnd_tasks"
    /\ \A n \in DOMAIN PathNone : st.path[n] # "none"
    /\ st.path["content"] = "breaker"

\* C23: an exception raised while an evaluator runs never leaves the
\* evaluator; each fallback adds exactly one to ai_failures, so at the start
\* of the Verdict stage ai_failures is in 0..3 and is the number of
\* evaluators on their fallback path, and the Verdict stage leaves it alone.
C23_StageFailuresStayInside ==
    [][/\ (tpc \in {"time", "time_call", "content", "content_call",
                    "progress", "progress_call"}) => (tpc' # "except")
       /\ \A s \in StageSet :
             (tpc \in {s, CallPc(s)} /\ st'.path[s] = "breaker") =>
                 (st'.ai_failures = st.ai_failures + 1)
       /\ (tpc' = "verdict") =>
             /\ st'.ai_failures \in 0..3
             /\ st'.ai_failures = Cardinality(FallbackStages(st'))
       /\ (tpc \in {"verdict", "verdict_call"} /\ tpc' \in BodyPcs) =>
             (st'.ai_failures = st.ai_failures)]_vars

\* C24: on the fallback path of the Verdict Agent the decision depends on
\* the three upstream verdicts only (a missing one counts as CONCERN): two
\* or more FAIL give pending with confidence at most 45; otherwise flag, at
\* most 70 with one FAIL or two or more CONCERN and at most 80 otherwise.
C24_SynthesisFallbackTable ==
    st.path["verdict"] = "breaker" =>
        LET v == [s \in StageSet |->
                     IF st.node_verdicts[s].present THEN st.node_verdicts[s].verdict
                     ELSE "CONCERN"]
            fails == Cardinality({s \in StageSet : v[s] = "FAIL"})
            concerns == Cardinality({s \in StageSet : v[s] = "CONCERN"})
        IN IF fails >= 2
           THEN st.final_decision = "pending" /\ st.final_confidence <= 4500
           ELSE /\ st.final_decision = "flag"
                /\ st.final_confidence <= 8000
                /\ (fails = 1 \/ concerns >= 2) => (st.final_confidence <= 7000)

\* one FAIL among PASS verdicts of high confidence: the cap of 70 binds
C24_Witness ==
    /\ st.path["verdict"] = "breaker"
    /\ st.node_verdicts["progress"] = MkVerdict("FAIL", 100)
    /\ st.node_verdicts["time"] = MkVerdict("PASS", 100)
    /\ st.node_verdicts["content"] = MkVerdict("PASS", 100)
    /\ st.final_decision = "flag"
    /\ st.final_confidence = 7000

\* two verdicts missing and one FAIL: flag, not pending
C24_WitnessMissing ==
    /\ st.path["verdict"] = "breaker"
    /\ ~st.node_verdicts["time"].present
    /\ ~st.node_verdicts["content"].present
    /\ st.node_verdicts["progress"].verdict = "FAIL"
    /\ st.final_decision = "flag"

\* C25: when copy-paste was flagged, the confidence the Content/Work stage
\* records for an inference answer is lower than the confidence extracted
\* from the answer, by at most 25, whatever that confidence is.
C25_CopyPastePenaltyAlways ==
    [][(/\ tpc = "content_call"
        /\ st.copy_paste_flagged
        /\ st'.path["content"] = "ai") =>
          \A r \in PipeStageResponses :
             (st' = StageInferenceState("content", st, r)) =>
                 /\ st'.node_verdicts["content"].confidence
                       < extract_verdict(r).confidence
                 /\ st'.node_verdicts["content"].confidence
                       >= extract_verdict(r).confidence - 25]_vars

-----------------------------------------------------------------------------
(* Termination of an execution *)

\* the task with every failure it can meet; a worker that has taken the
\* message keeps executing it, the inference call answers or raises within
\* its timeout, and a retry is delivered after its countdown
LiveFinalResponses == {MkResp("APPROVE", <<95>>)}

InitLive ==
    /\ db \in InitEntries
    /\ priors = <<>>
    /\ tpc = "queued"
    /\ tentry = NullEntry
    /\ st = InitialState(NullEntry, 0)
    /\ retries = 0
    /\ exc = "none"
    /\ outcome = "none"
    /\ apc = "off"
    /\ aentry = NullEntry
    /\ clock = 0
    /\ stl = "no"
    /\ backendDown = FALSE
    /\ NoEdits

LiveStep ==
    \/ TaskStart
    \/ ContextGather
    \/ ContextFeedback
    \/ \E stage \in StageSet : StageEnter(stage)
    \/ \E stage \in StageSet : StageAnswer(stage, FailStageResponses)
    \/ \E stage \in StageSet : StageFail(stage)
    \/ VerdictEnter
    \/ VerdictAnswer(LiveFinalResponses)
    \/ VerdictFail
    \/ TaskRefresh
    \/ TaskSave
    \/ SoftTimeout
    \/ TimeoutHandler
    \/ TaskDbError
    \/ GenericHandler

NextLive ==
    \/ LiveStep
    \/ Tick
    \/ cleanup

SpecLive == InitLive /\ [][NextLive]_vars /\ WF_vars(LiveStep)

Outcomes == {"skipped", "not_found", "analyzed", "overridden", "timeout",
             "unavailable", "failed"}

\* C26: every execution ends, after at most 3 retries, with exactly one of
\* the outcomes, which then stays.
C26_RunTerminates ==
    /\ <>(tpc = "done")
    /\ [](retries <= max_retries)
    /\ [](tpc = "done" => outcome \in Outcomes)
    /\ [](tpc # "done" => outcome = "none")
    /\ [][tpc = "done" => (tpc' = "done" /\ outcome' = outcome)]_vars

\* the third retry has failed as well
C26_Witness ==
    /\ tpc = "done"
    /\ outcome = "failed"
    /\ retries = max_retries
    /\ db.ai_status = "error"

====
